---- MODULE Spec2Model ----
(***************************************************************************)
(* Model of the video worker: main() (broker connection loop and           *)
(* consumption), callback() (one delivered message) and                    *)
(* ProcessVideoUseCase.execute (the per-job pipeline), together with the   *)
(* collaborators they call (repository, S3 client, frame extractor,        *)
(* notifier, Prometheus metrics, local disk).                              *)
(*                                                                         *)
(* The worker is single threaded: pc is the position of the one thread.    *)
(* Every call to a collaborator may return or raise; the outcome is drawn  *)
(* nondeterministically.  The first except clause of execute names         *)
(* boto3.exceptions.ClientError; whether that attribute exists is a        *)
(* property of the installed boto3 (the class is defined in                *)
(* botocore.exceptions), so it is an unknown fixed at start: where it does *)
(* not exist, matching an exception raises AttributeError instead.         *)
(***************************************************************************)
EXTENDS Integers, Sequences, FiniteSets, TLC

\* ------------------------------------------------------------------ bounds
\* Number of messages the broker delivers in one run.
MaxDeliveries == 2

\* ------------------------------------------------------- values and inputs
\* Job ids that have a record in the repository, and one id that has none.
VideoIds == {1, 2, 3}
ExistingIds == {1, 2}
\* data.get(...) of an absent field is None; None, 0 and "" are all falsy.
NoId == 0
NoName == ""
Filenames == {"a.mp4"}
\* Archive names the extractor may return.
ZipNames == {"a.zip", "b.zip"}
Emails == {"u@x"}
NoEmail == ""

QUEUE_NAME == "video_processing"
\* The channel before queue_declare and basic_qos (prefetch 0: no limit).
NoChannel == [queue |-> "", durable |-> FALSE, prefetch |-> 0]
S3_BUCKET_NAME == "bucket"
UPLOADS_DIR == "/data/uploads"
OUTPUTS_DIR == "/data/outputs"

\* None for zip_path and zip_local_path is the empty tuple; a path or URL is a
\* non-empty tuple.
NoPath == <<>>

\* Message bodies: a JSON object with optional fields, or bytes that are not JSON.
Garbage == [json |-> FALSE, video_id |-> NoId, filename |-> NoName]
Bodies ==
  {[json |-> TRUE, video_id |-> v, filename |-> f] :
      v \in VideoIds \cup {NoId}, f \in Filenames \cup {NoName}}
  \cup {Garbage}
NoMsg == [json |-> FALSE, video_id |-> NoId, filename |-> "-"]

\* Exceptions in flight: the class and the call that raised it.
NoExc == [type |-> "none", at |-> "none"]
Exc(t, a) == [type |-> t, at |-> a]

\* The in-memory projection of a job (None before get_by_id returned one).
NoVideo == [id |-> NoId, status |-> "none", zip_path |-> NoPath]

VARIABLES
  pc,            \* position of the worker thread
  clientErrorDefined, \* whether boto3.exceptions.ClientError resolves in the
                 \* installed boto3 (fixed for the life of the process)
  channel,       \* the pika channel: queue declared, its durability, prefetch
  delivered,     \* number of messages delivered so far
  buffer,        \* messages the broker has pushed and callback has not taken yet
  msg,           \* body of the message being handled (kept until the next one)
  unacked,       \* messages delivered and not yet acknowledged
  session,       \* db_session of the current message: "none", "open", "closed"
  db,            \* the repository: id -> [status, zip_path]
  video,         \* execute's local `video`
  zip_filename,  \* execute's local `zip_filename` ("" before extraction returned)
  zip_local_path,\* execute's local `zip_local_path` (NoPath stands for None)
  handler,       \* except clause that is running: "none", "s3", "generic"
  user_email,    \* execute's local `user_email`
  exc,           \* exception in flight
  disk,          \* local files: set of paths that exist
  s3,            \* keys uploaded to the bucket
  metrics,       \* Prometheus counters and number of histogram observations
  log            \* calls made while handling the current message, in order

vars == <<pc, clientErrorDefined, channel, delivered, buffer, msg, unacked, session, db, video,
          zip_filename, zip_local_path, handler, user_email, exc, disk, s3,
          metrics, log>>

\* Variables local to one execution of execute.
locals == <<video, zip_filename, zip_local_path, handler, user_email>>

\* ------------------------------------------------------- pure helpers
VideoLocalPath(filename) == <<UPLOADS_DIR, filename>>
ZipLocalPath(name) == <<OUTPUTS_DIR, name>>
S3UploadKey(filename) == <<"uploads", filename>>
S3ZipKeyBug(video_id, name) == <<"processed_videos", name>>

S3ZipKey(video_id, name) == <<"processed_videos", video_id, name>>
S3Url(bucket, key) == <<"https", bucket, "s3.amazonaws.com", key>>

\* The condition of the early return of callback.
MalformedBug(data) == data.video_id = NoId /\ data.filename = NoName

Malformed(data) == data.video_id = NoId \/ data.filename = NoName

Event(op, arg) == [op |-> op, arg |-> arg]
Logged(op, arg) == log' = Append(log, Event(op, arg))


\* ------------------------------------------------------- the repository
\* get_by_id: the record of the job as a projection, or None.
RepoGetById(d, id) ==
  IF id \in DOMAIN d
    THEN [id |-> id, status |-> d[id].status, zip_path |-> d[id].zip_path]
    ELSE NoVideo

\* update_status: persists the full current projection (status and zip_path).
RepoUpdateStatus(d, v) ==
  [d EXCEPT ![v.id] = [status |-> v.status, zip_path |-> v.zip_path]]

\* The record of one update_status call in the log.
StatusCall(v, ok) == [id |-> v.id, status |-> v.status, zip_path |-> v.zip_path, ok |-> ok]

\* ------------------------------------------------------------------ Init
Init ==
  /\ pc = "connect"
  /\ clientErrorDefined \in BOOLEAN
  /\ channel = NoChannel
  /\ delivered = 0
  /\ buffer = <<>>
  /\ msg = NoMsg
  /\ unacked = 0
  /\ session = "none"
  /\ db = [i \in ExistingIds |-> [status |-> "PENDING", zip_path |-> NoPath]]
  /\ video = NoVideo
  /\ zip_filename = NoName
  /\ zip_local_path = NoPath
  /\ handler = "none"
  /\ user_email = NoEmail
  /\ exc = NoExc
  /\ disk \in {{}, {VideoLocalPath(f) : f \in Filenames}}
  /\ s3 = {}
  /\ metrics = [processing |-> 0, completed |-> 0, error |-> 0,
                errors_total |-> 0, duration |-> 0]
  /\ log = <<>>

\* ------------------------------------------------------------------ main()
\* pika.BlockingConnection(...) and connection.channel(): break, or
\* AMQPConnectionError and the 5 s sleep.
Connect ==
  /\ pc = "connect"
  /\ \E ok \in BOOLEAN : pc' = IF ok THEN "declare" ELSE "sleep"
  /\ UNCHANGED <<clientErrorDefined, channel, delivered, buffer, msg, unacked, session, db, locals,
                 exc, disk, s3, metrics, log>>

Sleep ==
  /\ pc = "sleep"
  /\ pc' = "connect"
  /\ UNCHANGED <<clientErrorDefined, channel, delivered, buffer, msg, unacked, session, db, locals,
                 exc, disk, s3, metrics, log>>

\* durable=True
DurableBug == FALSE

Durable == TRUE

\* channel.queue_declare(queue=QUEUE_NAME, durable=True)
QueueDeclare ==
  /\ pc = "declare"
  /\ channel' = [channel EXCEPT !.queue = QUEUE_NAME, !.durable = Durable]
  /\ pc' = "qos"
  /\ UNCHANGED <<clientErrorDefined, delivered, buffer, msg, unacked, session, db, locals,
                 exc, disk, s3, metrics, log>>

\* The prefetch_count given to basic_qos.
PrefetchBug == 1 + 1

Prefetch == 1

\* channel.basic_qos(prefetch_count=1)
BasicQos ==
  /\ pc = "qos"
  /\ channel' = [channel EXCEPT !.prefetch = Prefetch]
  /\ pc' = "consume"
  /\ UNCHANGED <<clientErrorDefined, delivered, buffer, msg, unacked, session, db, locals,
                 exc, disk, s3, metrics, log>>

StartConsuming ==
  /\ pc = "consume"
  /\ pc' = "idle"
  /\ UNCHANGED <<clientErrorDefined, channel, delivered, buffer, msg, unacked, session, db, locals,
                 exc, disk, s3, metrics, log>>

\* The connection drops while start_consuming waits: the pika error leaves
\* main(), whose caller catches KeyboardInterrupt only.
ConnectionLost ==
  /\ pc = "idle"
  /\ pc' = "crashed"
  /\ exc' = Exc("AMQPError", "start_consuming")
  /\ UNCHANGED <<clientErrorDefined, channel, delivered, buffer, msg, unacked, session, db, locals,
                 disk, s3, metrics, log>>

\* Positions at which the worker is consuming (start_consuming was called and
\* the process has not ended).
Setup == {"connect", "sleep", "declare", "qos", "consume", "crashed"}

\* The broker pushes the next message of the queue to the consumer, as long as
\* fewer than prefetch messages are unacknowledged (0: no limit).
Deliver ==
  /\ pc \notin Setup
  /\ delivered < MaxDeliveries
  /\ channel.prefetch = 0 \/ unacked < channel.prefetch
  /\ \E b \in Bodies : buffer' = Append(buffer, b)
  /\ delivered' = delivered + 1
  /\ unacked' = unacked + 1
  /\ UNCHANGED <<pc, clientErrorDefined, channel, msg, session, db, locals, exc,
                 disk, s3, metrics, log>>

\* start_consuming calls callback(ch, method, properties, body) for the next
\* message pushed, one call at a time.
Dispatch ==
  /\ pc = "idle"
  /\ buffer # <<>>
  /\ msg' = Head(buffer)
  /\ buffer' = Tail(buffer)
  /\ pc' = "cb_parse"
  /\ session' = "none"
  /\ video' = NoVideo
  /\ zip_filename' = NoName
  /\ zip_local_path' = NoPath
  /\ handler' = "none"
  /\ user_email' = NoEmail
  /\ exc' = NoExc
  /\ log' = <<>>
  /\ UNCHANGED <<clientErrorDefined, channel, delivered, unacked, db, disk, s3, metrics>>

\* --------------------------------------------------------------- callback()
\* data = json.loads(body): outside any try, so a decode error leaves callback,
\* start_consuming and main().
CbParse ==
  /\ pc = "cb_parse"
  /\ IF msg.json
       THEN pc' = "cb_validate" /\ exc' = exc
       ELSE pc' = "crashed" /\ exc' = Exc("JSONDecodeError", "json.loads")
  /\ UNCHANGED <<clientErrorDefined, channel, delivered, buffer, msg, unacked, session, db, locals,
                 disk, s3, metrics, log>>

\* if not video_id or not filename: basic_ack and return.
CbValidate ==
  /\ pc = "cb_validate"
  /\ IF Malformed(msg)
       THEN /\ pc' = "idle"
            /\ unacked' = unacked - 1
            /\ Logged("ack", msg.video_id)
       ELSE /\ pc' = "cb_session"
            /\ UNCHANGED <<unacked, log>>
  /\ UNCHANGED <<clientErrorDefined, channel, delivered, buffer, msg, session, db, locals, exc,
                 disk, s3, metrics>>

\* db_session = SessionLocal()
CbOpenSession ==
  /\ pc = "cb_session"
  /\ session' = "open"
  /\ Logged("session_open", msg.video_id)
  /\ pc' = "cb_execute"
  /\ UNCHANGED <<clientErrorDefined, channel, delivered, buffer, msg, unacked, db, locals, exc,
                 disk, s3, metrics>>

\* The dependencies are built and use_case.execute(video_id, filename) is entered.
CbExecute ==
  /\ pc = "cb_execute"
  /\ Logged("execute", <<msg.video_id, msg.filename>>)
  /\ pc' = "get_by_id"
  /\ UNCHANGED <<clientErrorDefined, channel, delivered, buffer, msg, unacked, session, db, locals,
                 exc, disk, s3, metrics>>

\* print after execute returned.
CbDone ==
  /\ pc = "cb_done"
  /\ pc' = "cb_finally"
  /\ UNCHANGED <<clientErrorDefined, channel, delivered, buffer, msg, unacked, session, db, locals,
                 exc, disk, s3, metrics, log>>

\* except Exception as e: print.
CbExcept ==
  /\ pc = "cb_except"
  /\ Logged("caught", exc)
  /\ exc' = NoExc
  /\ pc' = "cb_finally"
  /\ UNCHANGED <<clientErrorDefined, channel, delivered, buffer, msg, unacked, session, db, locals,
                 disk, s3, metrics>>

\* db_session.close()
CloseSessionBug(sess) == sess

CloseSession(sess) == "closed"

\* finally: db_session.close(); ch.basic_ack(...)
CbFinally ==
  /\ pc = "cb_finally"
  /\ session' = CloseSession(session)
  /\ unacked' = unacked - 1
  /\ log' = log \o <<Event("session_close", msg.video_id), Event("ack", msg.video_id)>>
  /\ pc' = "idle"
  /\ UNCHANGED <<clientErrorDefined, channel, delivered, buffer, msg, db, locals, exc, disk, s3,
                 metrics>>


\* ------------------------------------------- ProcessVideoUseCase.execute
\* Classes a failing S3 transfer may raise: botocore's ClientError or another.
S3Errors == {"ClientError", "Exception"}

\* if not video
NotFoundBug(v) == FALSE

NotFound(v) == v = NoVideo

\* video = get_by_id(video_id); if not video: raise ValueError. Both this raise
\* and a failure of the repository happen before the try statement.
GetById ==
  /\ pc = "get_by_id"
  /\ \E ok \in BOOLEAN :
       /\ Logged("get_by_id", [id |-> msg.video_id, ok |-> ok])
       /\ IF ~ok
            THEN /\ exc' = Exc("Exception", "get_by_id")
                 /\ pc' = "cb_except"
                 /\ video' = video
            ELSE /\ video' = RepoGetById(db, msg.video_id)
                 /\ IF NotFound(video')
                      THEN exc' = Exc("ValueError", "get_by_id") /\ pc' = "cb_except"
                      ELSE exc' = exc /\ pc' = "set_processing"
  /\ UNCHANGED <<clientErrorDefined, channel, delivered, buffer, msg, unacked, session, db,
                 zip_filename, zip_local_path, handler, user_email, disk, s3, metrics>>

\* video.status = PROCESSING; update_status(video)  (before the try statement)
SetProcessing ==
  /\ pc = "set_processing"
  /\ video' = [video EXCEPT !.status = "PROCESSING"]
  /\ \E ok \in BOOLEAN :
       /\ Logged("update_status", StatusCall(video', ok))
       /\ IF ok
            THEN db' = RepoUpdateStatus(db, video') /\ pc' = "inc_processing" /\ exc' = exc
            ELSE db' = db /\ pc' = "cb_except" /\ exc' = Exc("Exception", "update_status")
  /\ UNCHANGED <<clientErrorDefined, channel, delivered, buffer, msg, unacked, session,
                 zip_filename, zip_local_path, handler, user_email, disk, s3, metrics>>

\* videos_processed_metric.labels(status='processing').inc();
\* video_local_path = ...; zip_local_path = None
IncProcessing ==
  /\ pc = "inc_processing"
  /\ metrics' = [metrics EXCEPT !.processing = @ + 1]
  /\ Logged("inc", "processing")
  /\ zip_local_path' = NoPath
  /\ pc' = "download"
  /\ UNCHANGED <<clientErrorDefined, channel, delivered, buffer, msg, unacked, session, db, video,
                 zip_filename, handler, user_email, exc, disk, s3>>

\* Inside the try block a call that returns is followed by the next statement;
\* a call that raises leaves the block for the except clauses.
AfterCallBug(ok, next) == next

AfterCall(ok, next) == IF ok THEN next ELSE "match"

\* s3_client.download_file(bucket, "uploads/" + filename, video_local_path)
Download ==
  /\ pc = "download"
  /\ \E ok \in BOOLEAN :
       /\ Logged("download", [bucket |-> S3_BUCKET_NAME, key |-> S3UploadKey(msg.filename),
                              path |-> VideoLocalPath(msg.filename), ok |-> ok])
       /\ IF ok
            THEN /\ disk' = disk \cup {VideoLocalPath(msg.filename)}
                 /\ pc' = AfterCall(ok, "extract")
                 /\ exc' = exc
            ELSE /\ disk' = disk
                 /\ pc' = AfterCall(ok, "extract")
                 /\ \E t \in S3Errors : exc' = Exc(t, "download")
  /\ UNCHANGED <<clientErrorDefined, channel, delivered, buffer, msg, unacked, session, db, locals,
                 s3, metrics>>

\* What the frame extractor can do: write the archive and return its name, or
\* raise, before or after it has written the archive.
ExtractorOutcomes ==
  {[ok |-> TRUE, written |-> TRUE], [ok |-> FALSE, written |-> FALSE],
   [ok |-> FALSE, written |-> TRUE]}

\* zip_filename = processor.extract_frames_to_zip(video_local_path, outputs_dir);
\* zip_local_path = os.path.join(outputs_dir, zip_filename)
Extract ==
  /\ pc = "extract"
  /\ \E o \in ExtractorOutcomes, n \in ZipNames :
       /\ Logged("extract", [path |-> VideoLocalPath(msg.filename), dir |-> OUTPUTS_DIR,
                             name |-> n, written |-> o.written, ok |-> o.ok])
       /\ IF o.ok
            THEN /\ disk' = disk \cup {ZipLocalPath(n)}
                 /\ zip_filename' = n
                 /\ zip_local_path' = ZipLocalPath(n)
                 /\ pc' = AfterCall(o.ok, "upload")
                 /\ exc' = exc
            ELSE /\ disk' = IF o.written THEN disk \cup {ZipLocalPath(n)} ELSE disk
                 /\ UNCHANGED <<zip_filename, zip_local_path>>
                 /\ pc' = AfterCall(o.ok, "upload")
                 /\ exc' = Exc("Exception", "extract")
  /\ UNCHANGED <<clientErrorDefined, channel, delivered, buffer, msg, unacked, session, db, video,
                 handler, user_email, s3, metrics>>

\* s3_zip_key = ...; s3_client.upload_file(zip_local_path, bucket, s3_zip_key)
Upload ==
  /\ pc = "upload"
  /\ \E ok \in BOOLEAN :
       /\ Logged("upload", [path |-> zip_local_path, bucket |-> S3_BUCKET_NAME,
                            key |-> S3ZipKey(msg.video_id, zip_filename), ok |-> ok])
       /\ IF ok
            THEN /\ s3' = s3 \cup {S3ZipKey(msg.video_id, zip_filename)}
                 /\ pc' = AfterCall(ok, "set_completed")
                 /\ exc' = exc
            ELSE /\ s3' = s3
                 /\ pc' = AfterCall(ok, "set_completed")
                 /\ \E t \in S3Errors : exc' = Exc(t, "upload")
  /\ UNCHANGED <<clientErrorDefined, channel, delivered, buffer, msg, unacked, session, db, locals,
                 disk, metrics>>

\* s3_url = ...; video.status = COMPLETED; video.zip_path = s3_url;
\* update_status(video)
SetCompleted ==
  /\ pc = "set_completed"
  /\ video' = [video EXCEPT !.status = "COMPLETED",
                            !.zip_path = S3Url(S3_BUCKET_NAME,
                                               S3ZipKey(msg.video_id, zip_filename))]
  /\ \E ok \in BOOLEAN :
       /\ Logged("update_status", StatusCall(video', ok))
       /\ IF ok
            THEN db' = RepoUpdateStatus(db, video') /\ pc' = AfterCall(ok, "inc_completed") /\ exc' = exc
            ELSE db' = db /\ pc' = AfterCall(ok, "inc_completed") /\ exc' = Exc("Exception", "update_status")
  /\ UNCHANGED <<clientErrorDefined, channel, delivered, buffer, msg, unacked, session,
                 zip_filename, zip_local_path, handler, user_email, disk, s3, metrics>>

\* videos_processed_metric.labels(status='completed').inc(); the try block ends.
IncCompleted ==
  /\ pc = "inc_completed"
  /\ metrics' = [metrics EXCEPT !.completed = @ + 1]
  /\ Logged("inc", "completed")
  /\ pc' = "cleanup"
  /\ UNCHANGED <<clientErrorDefined, channel, delivered, buffer, msg, unacked, session, db, locals,
                 exc, disk, s3>>

\* An exception left the try block: the except clauses are matched in order.
\* `except boto3.exceptions.ClientError` first evaluates that name; when the
\* name does not resolve, the AttributeError replaces the exception, no clause
\* of this try statement runs, and control goes to the finally block.
MatchExcept ==
  /\ pc = "match"
  /\ IF ~clientErrorDefined
       THEN /\ exc' = Exc("AttributeError", "except")
            /\ handler' = handler
            /\ pc' = "cleanup"
       ELSE /\ exc' = exc
            /\ handler' = IF exc.type = "ClientError" THEN "s3" ELSE "generic"
            /\ pc' = "h_set_error"
  /\ UNCHANGED <<clientErrorDefined, channel, delivered, buffer, msg, unacked, session, db, video,
                 zip_filename, zip_local_path, user_email, disk, s3, metrics, log>>

\* video.status = ERROR; update_status(video)   (either except clause)
HSetError ==
  /\ pc = "h_set_error"
  /\ video' = [video EXCEPT !.status = "ERROR"]
  /\ \E ok \in BOOLEAN :
       /\ Logged("update_status", StatusCall(video', ok))
       /\ IF ok
            THEN db' = RepoUpdateStatus(db, video') /\ pc' = "h_inc_error" /\ exc' = exc
            ELSE db' = db /\ pc' = "cleanup" /\ exc' = Exc("Exception", "update_status")
  /\ UNCHANGED <<clientErrorDefined, channel, delivered, buffer, msg, unacked, session,
                 zip_filename, zip_local_path, handler, user_email, disk, s3, metrics>>

\* labels(status='error').inc(); video_processing_errors_metric.inc()
HIncError ==
  /\ pc = "h_inc_error"
  /\ metrics' = [metrics EXCEPT !.error = @ + 1, !.errors_total = @ + 1]
  /\ log' = log \o <<Event("inc", "error"), Event("inc", "errors_total")>>
  /\ pc' = "h_email"
  /\ UNCHANGED <<clientErrorDefined, channel, delivered, buffer, msg, unacked, session, db, locals,
                 exc, disk, s3>>

\* if user_email
HasEmailBug(e) == TRUE

HasEmail(e) == e # NoEmail

\* user_email = get_user_email_by_video(video_id); if user_email: ...
HGetEmail ==
  /\ pc = "h_email"
  /\ \E ok \in BOOLEAN, e \in Emails \cup {NoEmail} :
       /\ Logged("get_user_email_by_video",
                 [id |-> msg.video_id, email |-> IF ok THEN e ELSE NoEmail, ok |-> ok])
       /\ IF ok
            THEN /\ user_email' = e
                 /\ exc' = exc
                 /\ pc' = IF HasEmail(e) THEN "h_notify" ELSE "h_raise"
            ELSE /\ user_email' = user_email
                 /\ exc' = Exc("Exception", "get_user_email_by_video")
                 /\ pc' = "cleanup"
  /\ UNCHANGED <<clientErrorDefined, channel, delivered, buffer, msg, unacked, session, db, video,
                 zip_filename, zip_local_path, handler, disk, s3, metrics>>

\* The reason text of the two except clauses.
Reason(h, e) == IF h = "s3" THEN <<"S3 Operation Failed", e.type, e.at>>
                            ELSE <<e.type, e.at>>

\* notifier.notify_error(user_email, filename, reason)
HNotify ==
  /\ pc = "h_notify"
  /\ \E ok \in BOOLEAN :
       /\ Logged("notify_error", [email |-> user_email, filename |-> msg.filename,
                                  reason |-> Reason(handler, exc), ok |-> ok])
       /\ IF ok
            THEN exc' = exc /\ pc' = "h_raise"
            ELSE exc' = Exc("Exception", "notify_error") /\ pc' = "cleanup"
  /\ UNCHANGED <<clientErrorDefined, channel, delivered, buffer, msg, unacked, session, db, locals,
                 disk, s3, metrics>>

\* raise s3_error / raise e
HRaise ==
  /\ pc = "h_raise"
  /\ pc' = "cleanup"
  /\ UNCHANGED <<clientErrorDefined, channel, delivered, buffer, msg, unacked, session, db, locals,
                 exc, disk, s3, metrics, log>>

\* finally: remove video_local_path when it exists, and zip_local_path when it
\* is not None and exists.
Removed(filename, zpath) ==
  {VideoLocalPath(filename)} \cup (IF zpath # NoPath THEN {zpath} ELSE {})

Cleanup ==
  /\ pc = "cleanup"
  /\ disk' = disk \ Removed(msg.filename, zip_local_path)
  /\ Logged("cleanup", disk \cap Removed(msg.filename, zip_local_path))
  /\ pc' = "observe"
  /\ UNCHANGED <<clientErrorDefined, channel, delivered, buffer, msg, unacked, session, db, locals,
                 exc, s3, metrics>>

\* video_processing_duration_metric.observe(end_time - start_time); execute
\* returns, or the exception in flight goes on to the caller.
Observe ==
  /\ pc = "observe"
  /\ metrics' = [metrics EXCEPT !.duration = @ + 1]
  /\ Logged("observe", "duration")
  /\ pc' = IF exc = NoExc THEN "cb_done" ELSE "cb_except"
  /\ UNCHANGED <<clientErrorDefined, channel, delivered, buffer, msg, unacked, session, db, locals,
                 exc, disk, s3>>

\* ------------------------------------------------------------------ Next
Next ==
  \/ Connect \/ Sleep \/ QueueDeclare \/ BasicQos \/ StartConsuming
  \/ ConnectionLost \/ Deliver \/ Dispatch
  \/ CbParse \/ CbValidate \/ CbOpenSession \/ CbExecute
  \/ CbDone \/ CbExcept \/ CbFinally
  \/ GetById \/ SetProcessing \/ IncProcessing \/ Download \/ Extract \/ Upload
  \/ SetCompleted \/ IncCompleted \/ MatchExcept
  \/ HSetError \/ HIncError \/ HGetEmail \/ HNotify \/ HRaise
  \/ Cleanup \/ Observe

Spec == Init /\ [][Next]_vars

\* The steps of the worker thread (all but the broker's push and the loss of
\* the connection). The thread is never suspended for ever: a step of it that
\* stays possible is eventually taken.
WorkerStep ==
  \/ Connect \/ Sleep \/ QueueDeclare \/ BasicQos \/ StartConsuming \/ Dispatch
  \/ CbParse \/ CbValidate \/ CbOpenSession \/ CbExecute
  \/ CbDone \/ CbExcept \/ CbFinally
  \/ GetById \/ SetProcessing \/ IncProcessing \/ Download \/ Extract \/ Upload
  \/ SetCompleted \/ IncCompleted \/ MatchExcept
  \/ HSetError \/ HIncError \/ HGetEmail \/ HNotify \/ HRaise
  \/ Cleanup \/ Observe

FairSpec == Spec /\ WF_vars(WorkerStep)


\* ------------------------------------------------- reading the call log
Idx(op) == {i \in 1..Len(log) : log[i].op = op}
Count(op) == Cardinality(Idx(op))
IdxInc(label) == {i \in Idx("inc") : log[i].arg = label}
IdxStatus(st) == {i \in Idx("update_status") : log[i].arg.status = st}
IsStatusCall(e) == e.op = "update_status"
StatusCalls == SelectSeq(log, IsStatusCall)

\* execute was called for the current message / has returned or raised.
Entered == Count("execute") = 1
Left == Entered /\ pc \in {"cb_done", "cb_except", "cb_finally", "idle", "crashed"}
\* get_by_id returned a job.
JobFound == video # NoVideo
\* Every repository call of this execution returned / the notifier returned.
RepoOk ==
  \A i \in Idx("get_by_id") \cup Idx("update_status") \cup Idx("get_user_email_by_video") :
     log[i].arg.ok
NotifierOk == \A i \in Idx("notify_error") : log[i].arg.ok
\* download, extraction or upload raised in this execution.
TransferFailed ==
  \E i \in Idx("download") \cup Idx("extract") \cup Idx("upload") : ~log[i].arg.ok
\* The message is a JSON object: with both fields / lacking one of them.
WellFormed == msg.json /\ msg.video_id # NoId /\ msg.filename # NoName
LacksField == msg.json /\ (msg.video_id = NoId \/ msg.filename = NoName)
\* The terminal statuses of a job.
Terminal == {"COMPLETED", "ERROR"}
\* execute ran to the end of its try block.
Succeeded == Entered /\ IdxInc("completed") # {}

\* ------------------------------------------------------------------ C1
\* C1: for a well-formed message whose job exists, whatever download,
\* extraction and upload do, once execute has returned or raised the persisted
\* status of the job is COMPLETED or ERROR and update_status was called exactly
\* twice, with PROCESSING and then with that terminal status.
C1_TwoStatusWrites ==
  (Left /\ JobFound /\ RepoOk) =>
     /\ db[msg.video_id].status \in Terminal
     /\ Len(StatusCalls) = 2
     /\ StatusCalls[1].arg.status = "PROCESSING"
     /\ StatusCalls[2].arg.status = db[msg.video_id].status

\* ------------------------------------------------------------------ C2
Forward(a, b) ==
  \/ a = b
  \/ a = "PENDING" /\ b = "PROCESSING"
  \/ a = "PROCESSING" /\ b \in Terminal

\* C2: over any sequence of deliveries the persisted status of a job only moves
\* forward along PENDING -> PROCESSING -> {COMPLETED, ERROR}; a terminal status
\* is never overwritten.
C2_StatusOnlyForward ==
  [][\A i \in ExistingIds : Forward(db[i].status, db'[i].status)]_vars

\* ------------------------------------------------------------------ C3
\* C3: in every persisted job record zip_path is set if and only if the status
\* is COMPLETED.
C3_ZipPathIffCompleted ==
  \A i \in ExistingIds : (db[i].zip_path # NoPath) <=> (db[i].status = "COMPLETED")

\* ------------------------------------------------------------------ C4
\* The calls of the failure path, in the order the claim gives them.
ErrorPathInOrder ==
  \E u \in IdxStatus("ERROR"), e \in IdxInc("error"), t \in IdxInc("errors_total"),
     g \in Idx("get_user_email_by_video") :
       /\ u < e /\ e < t /\ t < g
       /\ log[g].arg.email # NoEmail =>
            \E n \in Idx("notify_error") : g < n /\ log[n].arg.email = log[g].arg.email

\* C4: when download, extraction or upload raises after PROCESSING was
\* persisted, execute persists ERROR, increments the 'error' outcome count and
\* the error counter, notifies the user and re-raises that error to the caller;
\* the job is not left with persisted status PROCESSING.
C4_FailurePersistsError ==
  (Left /\ TransferFailed /\ RepoOk /\ NotifierOk) =>
     /\ db[msg.video_id].status = "ERROR"
     /\ ErrorPathInOrder
     /\ pc # "cb_done"
     /\ pc = "cb_except" => exc.at \in {"download", "extract", "upload"}

\* ------------------------------------------------------------------ C5
\* C5: after execute has returned or raised for a job that exists, neither the
\* local input file of the job nor an archive the extractor wrote in this
\* execution is on the local disk.
C5_NoLocalFilesLeft ==
  (Left /\ JobFound) =>
     /\ VideoLocalPath(msg.filename) \notin disk
     /\ \A i \in Idx("extract") :
          log[i].arg.written => ZipLocalPath(log[i].arg.name) \notin disk

\* ------------------------------------------------------------------ C6
\* C6: whatever exception is raised while a delivered message is handled, the
\* callback catches it and acknowledges the message; the worker never stops
\* because of an exception raised inside callback.
C6_NoCrashWhileHandling == pc = "crashed" => exc.at = "start_consuming"

\* ------------------------------------------------------------------ C7
\* C7: a well-formed message is acknowledged only after execute has finished
\* for it, and when it is acknowledged the job it names, when it exists, has
\* persisted status COMPLETED or ERROR (stated for the executions in which
\* every repository call returned).
C7_AckOnlyWhenTerminal ==
  (WellFormed /\ Count("ack") > 0 /\ RepoOk) =>
     /\ Left
     /\ msg.video_id \in ExistingIds => db[msg.video_id].status \in Terminal

\* ------------------------------------------------------------------ C8
\* C8: a message that lacks the job id or the filename opens no session, makes
\* no repository call and does not enter execute; its only effect is exactly
\* one acknowledgment, after which the worker waits for the next message.
C8_MalformedOnlyAcked ==
  LacksField =>
     /\ session = "none"
     /\ video = NoVideo
     /\ pc \in {"cb_parse", "cb_validate", "idle", "crashed"}
     /\ \A i \in 1..Len(log) : log[i].op = "ack"
     /\ Len(log) <= 1
     /\ pc \in {"idle", "crashed"} => Len(log) = 1

C8_Witness ==
  /\ msg.json /\ msg.video_id # NoId /\ msg.filename = NoName
  /\ pc = "idle" /\ Count("ack") = 1 /\ delivered = 2

\* ------------------------------------------------------------------ C9
\* C9: the duration metric is observed exactly once per call of execute on
\* every exit path: success, failure of download, extraction or upload, and
\* the job-not-found abort.
C9_DurationObservedOnce ==
  /\ Count("observe") <= 1
  /\ (Left /\ RepoOk) => Count("observe") = 1

\* ------------------------------------------------------------------ C10
\* The success path uploaded once, with the local archive path, the bucket and
\* the key built by `key` from the job id and the archive name the extractor
\* returned, and the zip_path persisted with COMPLETED is the address of that
\* bucket and key.
UploadedOnceUnder(key(_, _)) ==
  Succeeded =>
     /\ Count("upload") = 1
     /\ Count("extract") = 1
     /\ \A u \in Idx("upload"), x \in Idx("extract") :
          /\ log[u].arg.ok
          /\ log[u].arg.path = <<OUTPUTS_DIR, log[x].arg.name>>
          /\ log[u].arg.bucket = S3_BUCKET_NAME
          /\ log[u].arg.key = key(msg.video_id, log[x].arg.name)
          /\ db[msg.video_id] =
               [status |-> "COMPLETED",
                zip_path |-> <<"https", log[u].arg.bucket, "s3.amazonaws.com",
                               log[u].arg.key>>]

SpecKey(id, name) == <<"processed", id, name>>
CodeKey(id, name) == <<"processed_videos", id, name>>

\* C10 (as claimed): on the success path the archive is uploaded exactly once
\* under the key processed/{jobId}/{archiveName}, and the persisted zip_path is
\* the address of that bucket and key.
C10_KeyProcessed == UploadedOnceUnder(SpecKey)

\* C10 (amended): on the success path the archive is uploaded exactly once
\* under the key processed_videos/{jobId}/{archiveName}, a function of the job
\* id and the archive name only, and the persisted zip_path is the address of
\* that bucket and key.
C10_KeyProcessedVideos == UploadedOnceUnder(CodeKey)

C10_Witness ==
  /\ Succeeded /\ pc = "idle"
  /\ msg.video_id = 2 /\ zip_filename = "b.zip"
  /\ db[2].status = "COMPLETED"

\* ------------------------------------------------------------------ C11
\* get_by_id returned None for the current message.
JobNotFound ==
  /\ WellFormed /\ video = NoVideo
  /\ \E g \in Idx("get_by_id") : log[g].arg.ok

\* C11: when the job of a message is not found, execute aborts before any side
\* effect: no update_status call, no counter increment, no duration
\* observation, no download, extraction or upload, no notification, and no
\* change of the repository, the local disk, the bucket or the metrics; the
\* callback catches the ValueError, and the message is acknowledged.
C11_NotFoundNoSideEffect ==
  /\ [](JobNotFound =>
         /\ \A i \in 1..Len(log) :
              log[i].op \in {"session_open", "execute", "get_by_id", "caught",
                             "session_close", "ack"}
         /\ pc \in {"cb_except", "cb_finally", "idle", "crashed"}
         /\ pc = "cb_except" => exc = Exc("ValueError", "get_by_id")
         /\ pc \in {"idle", "crashed"} =>
              /\ Count("ack") = 1
              /\ \E c \in Idx("caught") : log[c].arg = Exc("ValueError", "get_by_id"))
  /\ [][(WellFormed /\ msg.video_id \notin ExistingIds /\ msg' = msg)
          => UNCHANGED <<db, disk, s3, metrics>>]_vars

C11_Witness ==
  /\ JobNotFound /\ pc = "idle" /\ Count("ack") = 1
  /\ msg.video_id = 3 /\ disk # {}

\* ------------------------------------------------------------------ C12
\* C12: the notifier is called only after ERROR was persisted for the job in
\* this execution and get_user_email_by_video returned an email, with that
\* email, and at most once; it is not called on the success path, for a
\* message lacking a field or for a job that was not found.
C12_NotifyOnlyOnError ==
  /\ Count("notify_error") <= 1
  /\ \A n \in Idx("notify_error") :
       /\ \E u \in IdxStatus("ERROR") : u < n /\ log[u].arg.ok
       /\ db[msg.video_id].status = "ERROR"
       /\ \E g \in Idx("get_user_email_by_video") :
            /\ g < n /\ log[g].arg.ok
            /\ log[g].arg.email # NoEmail
            /\ log[n].arg.email = log[g].arg.email
       /\ ~Succeeded /\ ~LacksField /\ ~JobNotFound
  /\ (Left /\ pc # "crashed" /\ IdxStatus("ERROR") # {} /\ RepoOk
        /\ \E g \in Idx("get_user_email_by_video") : log[g].arg.email # NoEmail)
       => Count("notify_error") = 1

C12_Witness ==
  /\ pc = "idle" /\ Count("notify_error") = 1 /\ Count("ack") = 1
  /\ db[msg.video_id].status = "ERROR"

\* ------------------------------------------------------------------ C13
\* The channel after queue_declare(durable=True) and basic_qos(prefetch_count=1).
Configured == channel = [queue |-> QUEUE_NAME, durable |-> TRUE, prefetch |-> 1]

C14_NeverTerminates == pc # "crashed"

C16_OutcomeCounters ==
  /\ Cardinality(IdxInc("processing")) <= 1
  /\ Cardinality(IdxInc("completed")) + Cardinality(IdxInc("error")) <= 1
  /\ \A o \in IdxInc("completed") \cup IdxInc("error") :
       \E q \in IdxInc("processing") : q < o
  /\ (Left /\ JobFound /\ RepoOk) =>
       /\ Cardinality(IdxInc("processing")) = 1
       /\ Cardinality(IdxInc("completed")) + Cardinality(IdxInc("error")) = 1

\* ------------------------------------------------------------------ C17
\* callback is running (Dispatch has called it and it has not returned).
InCallback == pc \notin Setup /\ pc # "idle"

\* C17: at most one message is delivered and unacknowledged at any time, and
\* callback is entered for a message only when the worker is waiting and every
\* earlier message has been acknowledged: while callback runs its message is
\* the only unacknowledged one and no other message has been pushed.
C17_OneMessageInFlight ==
  /\ unacked <= 1
  /\ Len(buffer) <= 1
  /\ InCallback => (unacked = 1 /\ buffer = <<>> /\ Count("ack") = 0)
  /\ pc = "idle" => unacked = Len(buffer)

C17_Witness ==
  /\ pc = "idle" /\ delivered = 2 /\ Len(buffer) = 1 /\ unacked = 1
  /\ Succeeded /\ Count("ack") = 1

\* ------------------------------------------------------------------ C18
\* C18: the session opened for a message is closed before the message is
\* acknowledged, on success and on every failure; at most one session is open
\* at a time and none while the worker waits for a message.
C18_SessionClosedBeforeAck ==
  /\ Count("session_open") <= 1
  /\ Count("session_close") <= Count("session_open")
  /\ session = "open" <=> (Count("session_open") = 1 /\ Count("session_close") = 0)
  /\ ~InCallback => session # "open"
  /\ \A a \in Idx("ack") :
       Count("session_open") = 1 =>
          /\ session = "closed"
          /\ \E c \in Idx("session_close") : c < a

C18_Witness ==
  /\ pc = "idle" /\ session = "closed" /\ Count("ack") = 1
  /\ Count("caught") = 1 /\ TransferFailed

\* ------------------------------------------------------------------ C19
\* callback has returned or raised for the current message.
CallbackOver == msg # NoMsg /\ pc \in {"idle", "crashed"}

\* C19: every message delivered to callback is acknowledged exactly once,
\* never twice.
C19_AckedExactlyOnce ==
  /\ Count("ack") <= 1
  /\ CallbackOver => Count("ack") = 1

\* ------------------------------------------------------------------ C20
\* C20: within one execution the steps occur in the order persist PROCESSING,
\* download, extract, upload, persist COMPLETED, each at most once, and a step
\* is invoked only after the step before it returned: no extraction after a
\* failed download, no upload after a failed download or extraction, and
\* COMPLETED is persisted only after the upload returned.
C20_StepOrder ==
  /\ Count("download") <= 1 /\ Count("extract") <= 1 /\ Count("upload") <= 1
  /\ Cardinality(IdxStatus("COMPLETED")) <= 1
  /\ \A d \in Idx("download") :
       \E q \in IdxStatus("PROCESSING") : q < d /\ log[q].arg.ok
  /\ \A x \in Idx("extract") : \E d \in Idx("download") : d < x /\ log[d].arg.ok
  /\ \A u \in Idx("upload") : \E x \in Idx("extract") : x < u /\ log[x].arg.ok
  /\ \A c \in IdxStatus("COMPLETED") : \E u \in Idx("upload") : u < c /\ log[u].arg.ok

C20_Witness ==
  /\ pc = "idle" /\ Count("ack") = 1
  /\ IdxStatus("COMPLETED") # {} /\ db[msg.video_id].status = "COMPLETED"
  /\ delivered = 1

\* ------------------------------------------------- supporting facts
\* With boto3.exceptions.ClientError resolving, C1 and C4 hold as stated.
C1_IfClientErrorResolves == clientErrorDefined => C1_TwoStatusWrites
C4_IfClientErrorResolves == clientErrorDefined => C4_FailurePersistsError
\* With that and a repository that does not fail, C7 holds as stated.
C7_IfClientErrorResolves == clientErrorDefined => C7_AckOnlyWhenTerminal
\* For a body that parses, no exception leaves callback.
C6_IfBodyParses == msg.json => C6_NoCrashWhileHandling
\* Once get_by_id has returned a job and PROCESSING was written, the duration
\* is observed exactly once.
C9_IfJobFound == JobFound => C9_DurationObservedOnce
\* With boto3.exceptions.ClientError resolving, C16 holds as stated.
C16_IfClientErrorResolves == clientErrorDefined => C16_OutcomeCounters
\* The ERROR status is persisted before the notifier is called.
C15_ErrorPersistedFirst ==
  \A n \in Idx("notify_error") : \E u \in IdxStatus("ERROR") : u < n /\ log[u].arg.ok
\* No message is acknowledged twice, and a message whose body parses is
\* acknowledged exactly once.
C19_IfBodyParses == msg.json => C19_AckedExactlyOnce

====
